---- MODULE Spec2Model ----
(***************************************************************************)
(* Model of the delivery route optimizer: the nearest-neighbour            *)
(* constructor, the 2-opt refiner, the brute-force solver and the          *)
(* controller (RouteOptimizerApp) that dispatches a mode to them.          *)
(*                                                                         *)
(* A location set is a Python dict: here a sequence of entries with        *)
(* pairwise distinct names, in insertion order.  Coordinates are integers  *)
(* on a grid; a distance is the integer part of 100 * the Euclidean        *)
(* distance, standing for geopy's geodesic(...).km on a small area         *)
(* (symmetric, zero exactly for equal coordinates).  Sums of distances are *)
(* integer sums: every sum the code forms is formed here over the same     *)
(* edges in the same order.                                                *)
(*                                                                         *)
(* A Python exception is the field "raised" of a call's outcome: "" when   *)
(* the call returned, the exception class when it raised.  None is the     *)
(* empty set, a present value v is {v}.                                    *)
(***************************************************************************)
EXTENDS Integers, Sequences, FiniteSets

VARIABLES
    locations,      \* the location set the caller / the controller holds
    out,            \* outcome of the last solver call made on locations
    prev,           \* outcome whose route the last two_opt call was given
    solver,         \* the counters of the BruteForceTSPSolver instance in use
    solves,         \* how many times solve was called on that instance
    result,         \* envelope returned by the controller's last run
    results,        \* dict returned by the controller's last run_all
    evaluations,    \* solver distance evaluations made during the last run
    dlg,            \* the Manage Locations dialog: closed, open, accepted, rejected
    before,         \* the controller's location set when the dialog was opened
    adds,           \* how many locations the dialog has added
    tpc,            \* position inside a running two_opt call
    route,          \* two_opt: the route it was called with
    best_route,     \* two_opt: local best_route
    best_distance,  \* two_opt: local best_distance
    improved,       \* two_opt: local improved
    i,              \* two_opt: outer loop index (Python, zero-based)
    k,              \* two_opt: inner loop index (Python, zero-based)
    new_route,      \* two_opt: the candidate last produced by _two_opt_swap
    examined        \* two_opt: the (i, k, accepted) of the candidates examined so far

vars == <<locations, out, prev, solver, solves, result, results, evaluations,
          dlg, before, adds,
          tpc, route, best_route, best_distance, improved, i, k, new_route, examined>>

instanceVars == <<solver, solves>>
solverVars == <<out, prev, instanceVars>>
appVars == <<result, results, evaluations>>
dialogVars == <<dlg, before, adds>>
twoOptVars == <<tpc, route, best_route, best_distance, improved, i, k, new_route, examined>>

-----------------------------------------------------------------------------
(* Bounds of the model *)

MaxCustomers == 3
\* most calls of solve made on one BruteForceTSPSolver instance
MaxSolves == 2
\* most locations added through the Manage Locations dialog
MaxAdds == 2

\* sample coordinates, in grid units
Lats == {0, 1, 2}
Lons == {0, 1}

CustomerNames ==
    <<"Customer1", "Customer2", "Customer3", "Customer4", "Customer5", "Customer6">>

-----------------------------------------------------------------------------
(* Option values *)

None == {}
Some(v) == {v}
Get(o) == CHOOSE v \in o : TRUE

-----------------------------------------------------------------------------
(* Locations and the distance function *)

Location(name, latitude, longitude) ==
    [name |-> name, lat |-> latitude, lon |-> longitude]

\* one item of the locations dict: the key and the Location stored under it
Item(key, location) == [key |-> key, value |-> location]

Keys(locs) == [j \in 1..Len(locs) |-> locs[j].key]

HasKey(locs, name) == \E j \in 1..Len(locs) : locs[j].key = name

\* locations[name]
Lookup(locs, name) == locs[CHOOSE j \in 1..Len(locs) : locs[j].key = name].value

\* integer part of 100 * sqrt(d2)
ISqrt100(d2) ==
    LET s == CHOOSE s \in 0..d2 : s * s <= d2 /\ (s + 1) * (s + 1) > d2
    IN  CHOOSE r \in (100 * s)..(100 * (s + 1)) :
            r * r <= 10000 * d2 /\ (r + 1) * (r + 1) > 10000 * d2

\* ISqrt100 tabulated over the squared coordinate differences the model can meet
SqrtTable == [d2 \in 0..(2 * 20 * 20) |-> ISqrt100(d2)]

Geodesic(p, q) ==
    SqrtTable[(p.lat - q.lat) * (p.lat - q.lat) + (p.lon - q.lon) * (p.lon - q.lon)]

\* _distance(name1, name2); raises KeyError unless both names are keys
Distance(locs, name1, name2) == Geodesic(Lookup(locs, name1), Lookup(locs, name2))

-----------------------------------------------------------------------------
(* Outcome of a solver call *)

Returned(r, d) == [raised |-> "", route |-> r, distance |-> d]
Raised(exc) == [raised |-> exc, route |-> <<>>, distance |-> 0]

RECURSIVE TotalRouteDistanceFrom(_, _, _)
TotalRouteDistanceFrom(locs, r, idx) ==
    IF idx > Len(r) - 1 THEN 0
    ELSE Distance(locs, r[idx], r[idx + 1]) + TotalRouteDistanceFrom(locs, r, idx + 1)

TotalRouteDistance_OpenPath(locs, r) ==
    IF Len(r) < 2 THEN 0 ELSE TotalRouteDistanceFrom(locs, SubSeq(r, 1, Len(r) - 1), 1)

\* _total_route_distance(route): sum over successive pairs
TotalRouteDistance(locs, r) == TotalRouteDistanceFrom(locs, r, 1)

-----------------------------------------------------------------------------
(* NearestNeighbourTSP.single_start_route *)

\* list.remove(x): drop the first occurrence
Remove(s, x) ==
    LET p == CHOOSE j \in 1..Len(s) : s[j] = x /\ \A h \in 1..(j - 1) : s[h] # x
    IN  [j \in 1..(Len(s) - 1) |-> IF j < p THEN s[j] ELSE s[j + 1]]

UnvisitedInit_KeepStart(locs, start) == Keys(locs)

\* unvisited = [name for name in self.locations.keys() if name != start]
UnvisitedInit(locs, start) == SelectSeq(Keys(locs), LAMBDA name : name # start)

Closer_OrEqual(d, nearest_distance) == d <= nearest_distance

Closer_Farthest(d, nearest_distance) == d > nearest_distance

\* if d < nearest_distance
Closer(d, nearest_distance) == d < nearest_distance

ScanNearest_LastScanned(locs, current, unvisited, idx, nearest, nearest_distance) ==
    LET d(j) == Distance(locs, current, unvisited[j])
        first == CHOOSE j \in 1..Len(unvisited) :
                    /\ \A h \in 1..Len(unvisited) : d(j) <= d(h)
                    /\ \A h \in 1..(j - 1) : d(h) > d(j)
    IN  [nearest |-> unvisited[first], nearest_distance |-> d(Len(unvisited))]

RECURSIVE ScanNearest(_, _, _, _, _, _)
\* for name in unvisited: keep the first strictly nearest
ScanNearest(locs, current, unvisited, idx, nearest, nearest_distance) ==
    IF idx > Len(unvisited) THEN [nearest |-> nearest, nearest_distance |-> nearest_distance]
    ELSE LET name == unvisited[idx]
             d == Distance(locs, current, name)
         IN  IF Closer(d, nearest_distance)
             THEN ScanNearest(locs, current, unvisited, idx + 1, name, d)
             ELSE ScanNearest(locs, current, unvisited, idx + 1, nearest, nearest_distance)

RECURSIVE NNLoop(_, _, _, _, _, _)
NNLoop(locs, start, current, r, total_distance, unvisited) ==
    IF unvisited # <<>>
    THEN IF ~HasKey(locs, current) THEN Raised("KeyError")
         ELSE LET sel == ScanNearest(locs, current, unvisited, 1, unvisited[1],
                                     Distance(locs, current, unvisited[1]))
              IN  NNLoop(locs, start, sel.nearest, Append(r, sel.nearest),
                         total_distance + sel.nearest_distance,
                         Remove(unvisited, sel.nearest))
    ELSE IF ~HasKey(locs, current) \/ ~HasKey(locs, start) THEN Raised("KeyError")
         ELSE Returned(Append(r, start), total_distance + Distance(locs, current, start))

SingleStartRoute_EmptyShortcut(locs, start) ==
    IF UnvisitedInit(locs, start) = <<>>
    THEN Returned(<<start, start>>, 0)
    ELSE NNLoop(locs, start, start, <<start>>, 0, UnvisitedInit(locs, start))

SingleStartRoute(locs, start) ==
    NNLoop(locs, start, start, <<start>>, 0, UnvisitedInit(locs, start))

-----------------------------------------------------------------------------
(* BruteForceTSPSolver.solve *)

RemoveAt(s, p) == [j \in 1..(Len(s) - 1) |-> IF j < p THEN s[j] ELSE s[j + 1]]

PrependAll(x, ps) == [j \in 1..Len(ps) |-> <<x>> \o ps[j]]

RECURSIVE permutations(_)
RECURSIVE permutationsFrom(_, _)
permutationsFrom(s, p) ==
    IF p > Len(s) THEN <<>>
    ELSE PrependAll(s[p], permutations(RemoveAt(s, p))) \o permutationsFrom(s, p + 1)

\* itertools.permutations(s): all orderings, lexicographic in the positions of s
permutations(s) == IF s = <<>> THEN << <<>> >> ELSE permutationsFrom(s, 1)

\* others = [name for name in self.locations.keys() if name != start]
Others_KeepStart(locs, start) == Keys(locs)

Others(locs, start) == SelectSeq(Keys(locs), LAMBDA name : name # start)

Better_OrEqual(total, best) == best.inf \/ total <= best.distance

Better_Longer(total, best) == best.inf \/ total > best.distance

\* if total < best_distance, with best_distance = float("inf") before the first tour
Better(total, best) == best.inf \/ total < best.distance

RECURSIVE SolveLoop(_, _, _, _, _)
SolveLoop(locs, start, perms, idx, best) ==
    IF idx > Len(perms) THEN best
    ELSE LET r == <<start>> \o perms[idx] \o <<start>>
             total == TotalRouteDistance(locs, r)
             calls == best.distance_calls + (Len(r) - 1)
         IN  IF Better(total, best)
             THEN SolveLoop(locs, start, perms, idx + 1,
                            [inf |-> FALSE, route |-> r, distance |-> total,
                             distance_calls |-> calls])
             ELSE SolveLoop(locs, start, perms, idx + 1,
                            [best EXCEPT !.distance_calls = calls])

\* the total solve forms for each permutation, in the order it enumerates them
PermutationTotals(locs, start) ==
    LET perms == permutations(Others(locs, start))
    IN  [j \in 1..Len(perms) |->
            TotalRouteDistance(locs, <<start>> \o perms[j] \o <<start>>)]

\* __init__: the counters of a new instance; permutations_tested is not among
\* them (the attribute set is permutations_texted) until reset_stats runs
NewSolver == [distance_calls |-> 0, permutations_texted |-> 0, permutations_tested |-> None]

ResetStats_KeepsCalls(self) == [self EXCEPT !.permutations_tested = Some(0)]

\* reset_stats()
ResetStats(self) == [self EXCEPT !.distance_calls = 0, !.permutations_tested = Some(0)]

\* get_stats(), on an instance whose permutations_tested exists
GetStats(self) ==
    [distance_calls |-> self.distance_calls,
     permutations_tested |-> Get(self.permutations_tested)]

SolveOn_NeedsCustomer(self, locs, start) ==
    LET s0 == ResetStats(self)
    IN  IF ~HasKey(locs, start) \/ Others(locs, start) = <<>>
        THEN [raised |-> "ValueError", route |-> <<>>, distance |-> 0, solver |-> s0]
        ELSE LET s == SolveLoop(locs, start, permutations(Others(locs, start)), 1,
                                [inf |-> TRUE, route |-> <<>>, distance |-> 0,
                                 distance_calls |-> s0.distance_calls])
             IN  [raised |-> "", route |-> s.route, distance |-> s.distance,
                  solver |-> [s0 EXCEPT !.distance_calls = s.distance_calls]]

\* solve(start) on the instance self: reset_stats() first, then the ValueError
\* or the loop over the permutations, _distance counting its calls on the
\* instance; nothing counts the permutations
SolveOn(self, locs, start) ==
    LET s0 == ResetStats(self)
    IN  IF ~HasKey(locs, start)
        THEN [raised |-> "ValueError", route |-> <<>>, distance |-> 0, solver |-> s0]
        ELSE LET s == SolveLoop(locs, start, permutations(Others(locs, start)), 1,
                                [inf |-> TRUE, route |-> <<>>, distance |-> 0,
                                 distance_calls |-> s0.distance_calls])
             IN  [raised |-> "", route |-> s.route, distance |-> s.distance,
                  solver |-> [s0 EXCEPT !.distance_calls = s.distance_calls]]

\* solve(start) on a new instance together with what get_stats() returns afterwards
SolveRun(locs, start) ==
    LET run == SolveOn(NewSolver, locs, start)
        stats == GetStats(run.solver)
    IN  [raised |-> run.raised, route |-> run.route, distance |-> run.distance,
         distance_calls |-> stats.distance_calls,
         permutations_tested |-> stats.permutations_tested]

\* solve(start): (best_route, best_distance), or the ValueError
Solve(locs, start) ==
    LET run == SolveRun(locs, start)
    IN  [raised |-> run.raised, route |-> run.route, distance |-> run.distance]

-----------------------------------------------------------------------------
(* NearestNeighbourTSP.two_opt *)

TwoOptSwap_ThroughNext(r, ci, ck) ==
    LET ce == IF ck + 1 > Len(r) - 1 THEN Len(r) - 1 ELSE ck + 1
    IN  [j \in 1..Len(r) |->
            IF j - 1 < ci \/ j - 1 > ce THEN r[j] ELSE r[(ci + ce - (j - 1)) + 1]]

\* route[0:i] + reversed(route[i:k+1]) + route[k+1:], i and k zero-based
TwoOptSwap(r, ci, ck) ==
    [j \in 1..Len(r) |-> IF j - 1 < ci \/ j - 1 > ck THEN r[j] ELSE r[(ci + ck - (j - 1)) + 1]]

\* the segment reversed one position short: route[i:k] instead of route[i:k + 1]
StandaloneTwoOptSwap_Exclusive(r, ci, ck) ==
    [j \in 1..Len(r) |->
        IF j - 1 < ci \/ j - 1 > ck - 1 THEN r[j] ELSE r[(ci + ck - 1 - (j - 1)) + 1]]

\* two_opt.py, _two_opt_swap: the same slices as the method
StandaloneTwoOptSwap(r, ci, ck) ==
    [j \in 1..Len(r) |-> IF j - 1 < ci \/ j - 1 > ck THEN r[j] ELSE r[(ci + ck - (j - 1)) + 1]]

Accepts_OrEqual(new_distance, bd) == new_distance <= bd

Accepts_Longer(new_distance, bd) == new_distance > bd

\* if new_distance < best_distance
Accepts(new_distance, bd) == new_distance < bd

RECURSIVE FirstImprovement_ShortInner(_, _, _, _, _)
FirstImprovement_ShortInner(locs, r, bd, ci, ck) ==
    IF ci > Len(r) - 3 THEN [improved |-> FALSE, route |-> r, distance |-> bd]
    ELSE IF ck > Len(r) - 3 THEN FirstImprovement_ShortInner(locs, r, bd, ci + 1, ci + 2)
    ELSE LET nr == TwoOptSwap(r, ci, ck)
             nd == TotalRouteDistance(locs, nr)
         IN  IF Accepts(nd, bd) THEN [improved |-> TRUE, route |-> nr, distance |-> nd]
             ELSE FirstImprovement_ShortInner(locs, r, bd, ci, ck + 1)

RECURSIVE FirstImprovement(_, _, _, _, _)
\* one pass of the two for loops, from candidate (ci, ck) on, up to the first break
FirstImprovement(locs, r, bd, ci, ck) ==
    IF ci > Len(r) - 3 THEN [improved |-> FALSE, route |-> r, distance |-> bd]
    ELSE IF ck > Len(r) - 2 THEN FirstImprovement(locs, r, bd, ci + 1, ci + 2)
    ELSE LET nr == TwoOptSwap(r, ci, ck)
             nd == TotalRouteDistance(locs, nr)
         IN  IF Accepts(nd, bd) THEN [improved |-> TRUE, route |-> nr, distance |-> nd]
             ELSE FirstImprovement(locs, r, bd, ci, ck + 1)

TwoOptLoop_SinglePass(locs, r, bd) ==
    LET pass == FirstImprovement(locs, r, bd, 1, 2)
    IN  Returned(pass.route, pass.distance)

RECURSIVE TwoOptLoop(_, _, _)
\* while improved: ...
TwoOptLoop(locs, r, bd) ==
    LET pass == FirstImprovement(locs, r, bd, 1, 2)
    IN  IF pass.improved THEN TwoOptLoop(locs, pass.route, pass.distance)
        ELSE Returned(r, bd)

TwoOpt(locs, r) ==
    IF Len(r) >= 2 /\ \E j \in 1..Len(r) : ~HasKey(locs, r[j]) THEN Raised("KeyError")
    ELSE IF Len(r) < 4 THEN Returned(r, TotalRouteDistance(locs, r))
    ELSE TwoOptLoop(locs, r, TotalRouteDistance(locs, r))

-----------------------------------------------------------------------------
(* two_opt.py: the standalone two_opt(route, distance_fn) *)

\* a distance callback over the names of locs: what passing the solver's
\* _distance as distance_fn gives
DistanceFn(locs) ==
    [p \in {<<Keys(locs)[a], Keys(locs)[b]>> : a, b \in 1..Len(locs)} |->
        Distance(locs, p[1], p[2])]

RECURSIVE StandaloneRouteDistanceFrom(_, _, _)
StandaloneRouteDistanceFrom(r, distance_fn, idx) ==
    IF idx > Len(r) - 1 THEN 0
    ELSE distance_fn[<<r[idx], r[idx + 1]>>]
            + StandaloneRouteDistanceFrom(r, distance_fn, idx + 1)

\* _route_distance(route, distance_fn)
StandaloneRouteDistance(r, distance_fn) == StandaloneRouteDistanceFrom(r, distance_fn, 1)

RECURSIVE StandalonePass(_, _, _, _, _, _)
\* one pass of the two for loops from candidate (ci, ck) on, up to the first
\* break, with the candidates examined appended to seen
StandalonePass(r, distance_fn, bd, ci, ck, seen) ==
    IF ci > Len(r) - 3
    THEN [improved |-> FALSE, route |-> r, distance |-> bd, examined |-> seen]
    ELSE IF ck > Len(r) - 2 THEN StandalonePass(r, distance_fn, bd, ci + 1, ci + 2, seen)
    ELSE LET nr == StandaloneTwoOptSwap(r, ci, ck)
             nd == StandaloneRouteDistance(nr, distance_fn)
         IN  IF nd < bd
             THEN [improved |-> TRUE, route |-> nr, distance |-> nd,
                   examined |-> Append(seen, <<ci, ck, TRUE>>)]
             ELSE StandalonePass(r, distance_fn, bd, ci, ck + 1,
                                 Append(seen, <<ci, ck, FALSE>>))

RECURSIVE StandaloneLoop(_, _, _, _)
\* while improved: ...
StandaloneLoop(r, distance_fn, bd, seen) ==
    LET pass == StandalonePass(r, distance_fn, bd, 1, 2, seen)
    IN  IF pass.improved
        THEN StandaloneLoop(pass.route, distance_fn, pass.distance, pass.examined)
        ELSE [route |-> r, distance |-> bd, examined |-> pass.examined]

\* two_opt(route, distance_fn) for a route whose names distance_fn knows
StandaloneTwoOpt(r, distance_fn) ==
    IF Len(r) < 4
    THEN [route |-> r, distance |-> StandaloneRouteDistance(r, distance_fn),
          examined |-> <<>>]
    ELSE StandaloneLoop(r, distance_fn, StandaloneRouteDistance(r, distance_fn), <<>>)

RECURSIVE PassTally(_, _, _, _, _, _)
\* the candidates one pass of two_opt's for loops examines, the accepted one included
PassTally(locs, r, bd, ci, ck, considered) ==
    IF ci > Len(r) - 3 THEN considered
    ELSE IF ck > Len(r) - 2 THEN PassTally(locs, r, bd, ci + 1, ci + 2, considered)
    ELSE IF Accepts(TotalRouteDistance(locs, TwoOptSwap(r, ci, ck)), bd) THEN considered + 1
    ELSE PassTally(locs, r, bd, ci, ck + 1, considered + 1)

RECURSIVE LoopTally(_, _, _, _)
\* the candidates examined and the moves accepted over all passes of two_opt
LoopTally(locs, r, bd, tally) ==
    LET pass == FirstImprovement(locs, r, bd, 1, 2)
        seen == tally.considered + PassTally(locs, r, bd, 1, 2, 0)
    IN  IF pass.improved
        THEN LoopTally(locs, pass.route, pass.distance,
                       [considered |-> seen, improvements |-> tally.improvements + 1])
        ELSE [tally EXCEPT !.considered = seen]

TwoOptTally(locs, r) ==
    IF Len(r) < 4 THEN [considered |-> 0, improvements |-> 0]
    ELSE LoopTally(locs, r, TotalRouteDistance(locs, r), [considered |-> 0, improvements |-> 0])

-----------------------------------------------------------------------------
(* The location sets the model draws from *)

\* the start identifier every caller in the repository passes
Start == "Depot"

Points == {<<la, lo>> : la \in Lats, lo \in Lons}

CustomerLists(m) ==
    {[j \in 1..m |-> Item(CustomerNames[j], Location(CustomerNames[j], c[j][1], c[j][2]))] :
        c \in [1..m -> Points]}

CustomerSets == UNION {CustomerLists(m) : m \in 0..MaxCustomers}

\* one Depot position per class of the grid's reflections (latitude 0 <-> 2,
\* longitude 0 <-> 1), which leave every distance unchanged
DepotPoints == {<<0, 0>>, <<1, 0>>}

Depots == {Item(Start, Location(Start, p[1], p[2])) : p \in DepotPoints}

\* dicts of at most MaxCustomers customers, without a Depot entry or with the
\* Depot entry inserted first
LocationSets ==
    CustomerSets \cup {<<d>> \o cs : d \in Depots, cs \in CustomerSets}

\* the closed routes [start] + p + [start], p a permutation of the other keys
ClosedRoutes(locs, start) ==
    LET ps == permutations(Others(locs, start))
    IN  {<<start>> \o ps[j] \o <<start>> : j \in 1..Len(ps)}

-----------------------------------------------------------------------------
(* Solver calls made directly on a location set: a caller constructs a      *)
(* solver over locations, makes one call, and may hand the route it got to *)
(* two_opt (as main.py and benchmark.py do).                               *)

NoCall == [op |-> "", arg |-> <<>>, raised |-> "", route |-> <<>>, distance |-> 0]

Call(op, arg, outcome) ==
    [op |-> op, arg |-> arg, raised |-> outcome.raised,
     route |-> outcome.route, distance |-> outcome.distance]

NoRun == [mode |-> "", route |-> None, distance |-> None, exec_time |-> None,
          error |-> None, stats |-> {}]

\* no Manage Locations dialog has been opened
NoDialog == dlg = "closed" /\ before = <<>> /\ adds = 0

Idle ==
    /\ tpc = "idle" /\ route = <<>> /\ best_route = <<>> /\ best_distance = 0
    /\ improved = FALSE /\ i = 0 /\ k = 0 /\ new_route = <<>> /\ examined = <<>>

Init ==
    /\ locations \in LocationSets
    /\ out = NoCall /\ prev = NoCall
    /\ solver = NewSolver /\ solves = 0
    /\ result = NoRun /\ results = None /\ evaluations = 0
    /\ NoDialog
    /\ Idle

CallSingleStartRoute_DropsVisited ==
    /\ out = NoCall
    /\ out' = Call("single_start_route", <<Start>>, SingleStartRoute(locations, Start))
    /\ prev' = NoCall
    /\ locations' = SelectSeq(locations, LAMBDA e : e.key = Start \/ out'.raised # "")
    /\ UNCHANGED <<instanceVars, appVars, twoOptVars, dialogVars>>

\* NearestNeighbourTSP(locations).single_start_route(start)
CallSingleStartRoute ==
    /\ out = NoCall
    /\ out' = Call("single_start_route", <<Start>>, SingleStartRoute(locations, Start))
    /\ prev' = NoCall
    /\ UNCHANGED <<locations, instanceVars, appVars, twoOptVars, dialogVars>>

\* solve(start) on the BruteForceTSPSolver(locations) instance: its first call,
\* or one more call on the instance the last call was made on
CallSolve ==
    /\ out = NoCall \/ out.op = "solve"
    /\ solves < MaxSolves
    /\ LET run == SolveOn(solver, locations, Start)
       IN  /\ out' = Call("solve", <<Start>>, run)
           /\ solver' = run.solver
    /\ solves' = solves + 1
    /\ prev' = NoCall
    /\ UNCHANGED <<locations, appVars, twoOptVars, dialogVars>>

\* NearestNeighbourTSP(locations).two_opt(route) on a closed route
CallTwoOpt ==
    /\ out = NoCall
    /\ \E r \in ClosedRoutes(locations, Start) :
          out' = Call("two_opt", r, TwoOpt(locations, r))
    /\ prev' = NoCall
    /\ UNCHANGED <<locations, instanceVars, appVars, twoOptVars, dialogVars>>

\* two_opt(route) on the route the previous call returned
CallTwoOptOnResult ==
    /\ out.op # "" /\ out.raised = ""
    /\ prev = NoCall
    /\ out' = Call("two_opt", out.route, TwoOpt(locations, out.route))
    /\ prev' = out
    /\ UNCHANGED <<locations, instanceVars, appVars, twoOptVars, dialogVars>>

Next == CallSingleStartRoute \/ CallSolve \/ CallTwoOpt \/ CallTwoOptOnResult

Spec == Init /\ [][Next]_vars

-----------------------------------------------------------------------------
(* NearestNeighbourTSP.two_opt, one loop iteration at a time *)

\* entry: the early return for short routes, else the locals before the while
TwoOptEnter ==
    /\ tpc = "idle"
    /\ HasKey(locations, Start)
    /\ \E r \in ClosedRoutes(locations, Start) :
          /\ route' = r
          /\ best_route' = r
          /\ best_distance' = TotalRouteDistance(locations, r)
          /\ IF Len(r) < 4
             THEN tpc' = "done" /\ improved' = FALSE
             ELSE tpc' = "while" /\ improved' = TRUE
    /\ UNCHANGED <<i, k, new_route, examined>>
    /\ UNCHANGED <<locations, solverVars, appVars, dialogVars>>

TwoOptWhile_ResumesAtI ==
    /\ tpc = "while"
    /\ IF improved
       THEN /\ improved' = FALSE
            /\ IF new_route = <<>> THEN i' = 1 /\ k' = 2 ELSE i' = i /\ k' = i + 1
            /\ tpc' = "scan"
       ELSE /\ tpc' = "done"
            /\ UNCHANGED <<improved, i, k>>
    /\ UNCHANGED <<route, best_route, best_distance, new_route, examined>>
    /\ UNCHANGED <<locations, solverVars, appVars, dialogVars>>

\* while improved: improved = False; the two for loops start at i = 1, k = i + 1
TwoOptWhile ==
    /\ tpc = "while"
    /\ IF improved
       THEN /\ improved' = FALSE
            /\ i' = 1 /\ k' = 2
            /\ tpc' = "scan"
       ELSE /\ tpc' = "done"
            /\ UNCHANGED <<improved, i, k>>
    /\ UNCHANGED <<route, best_route, best_distance, new_route, examined>>
    /\ UNCHANGED <<locations, solverVars, appVars, dialogVars>>

\* the body of the inner loop for (i, k), and the move to the next pair:
\* an accepted candidate breaks out of both loops
TwoOptCandidate ==
    /\ tpc = "scan"
    /\ LET nr == TwoOptSwap(best_route, i, k)
           new_distance == TotalRouteDistance(locations, nr)
       IN  /\ new_route' = nr
           /\ examined' = Append(examined, <<i, k, Accepts(new_distance, best_distance)>>)
           /\ IF Accepts(new_distance, best_distance)
              THEN /\ best_route' = nr
                   /\ best_distance' = new_distance
                   /\ improved' = TRUE
                   /\ tpc' = "while"
                   /\ UNCHANGED <<i, k>>
              ELSE /\ UNCHANGED <<best_route, best_distance, improved>>
                   /\ IF k + 1 <= Len(best_route) - 2
                      THEN k' = k + 1 /\ UNCHANGED <<i, tpc>>
                      ELSE IF i + 1 <= Len(best_route) - 3
                      THEN i' = i + 1 /\ k' = i + 2 /\ UNCHANGED tpc
                      ELSE tpc' = "while" /\ UNCHANGED <<i, k>>
    /\ UNCHANGED route
    /\ UNCHANGED <<locations, solverVars, appVars, dialogVars>>

NextTwoOpt == TwoOptEnter \/ TwoOptWhile \/ TwoOptCandidate

SpecTwoOpt == Init /\ [][NextTwoOpt]_vars

\* two_opt reads the location set only through _distance of the names in
\* its route, and every order of the customers is among the routes it is
\* started on: location sets that differ in which customer has which point
\* give the same calls, so one set per multiset of customer points (the
\* customers entered in non-decreasing order of their points) stands for all
PointsInOrder(locs) ==
    \A j \in 1..(Len(locs) - 1) :
        (locs[j].key # Start /\ locs[j + 1].key # Start) =>
            \/ locs[j].value.lat < locs[j + 1].value.lat
            \/ /\ locs[j].value.lat = locs[j + 1].value.lat
               /\ locs[j].value.lon <= locs[j + 1].value.lon

InitLive == Init /\ PointsInOrder(locations)

\* a call of two_opt that has been entered keeps executing: the while test
\* and the loop body are steps of one sequential call
SpecTwoOptLive ==
    InitLive /\ [][NextTwoOpt]_vars /\ WF_vars(TwoOptWhile \/ TwoOptCandidate)

-----------------------------------------------------------------------------
(* RouteOptimizerApp.  The controller keeps nothing between calls but its    *)
(* location set, so a behaviour makes each of run and run_all at most once,*)
(* in either order.                                                        *)

\* _build_default_locations(): the coordinates in units of 0.001 degree,
\* relative to (51.8156, -0.8200)
DefaultLocations ==
    << Item("Depot", Location("Depot", 0, 8)),
       Item("Customer1", Location("Customer1", 4, 20)),
       Item("Customer2", Location("Customer2", 14, 10)),
       Item("Customer3", Location("Customer3", 9, 0)),
       Item("Customer4", Location("Customer4", 19, 15)) >>

\* the attributes class NearestNeighbourTSP defines
NNMethods ==
    {"__init__", "_distance", "single_start_route", "best_of_multiple_starts",
     "two_opt", "_two_opt_swap", "_total_route_distance"}

\* str(e) of the AttributeError that calling a method NearestNeighbourTSP does
\* not define raises
AttributeError(attr) ==
    IF attr = "reset_stats"
    THEN "'NearestNeighbourTSP' object has no attribute 'reset_stats'"
    ELSE IF attr = "nearest_neighbour"
    THEN "'NearestNeighbourTSP' object has no attribute 'nearest_neighbour'"
    ELSE "'NearestNeighbourTSP' object has no attribute 'get_stats'"

\* str(e) of what a solver call raised
SolverError(exc) ==
    IF exc = "ValueError" THEN "Start node 'Depot' not found." ELSE "'Depot'"

\* MapRenderer.render_route: returns at once on an empty route; building and
\* saving the folium map is outside its try block and raises when io_ok is false
RenderRoute(r, locs, io_ok) ==
    IF r = <<>> THEN ""
    ELSE IF \E j \in 1..Len(r) : ~HasKey(locs, r[j]) THEN "KeyError"
    ELSE IF ~io_ok THEN "OSError"
    ELSE ""

\* the result dict as the try block starts
Envelope(mode) ==
    [mode |-> mode, route |-> None, distance |-> None, exec_time |-> None,
     error |-> None, stats |-> {}]

\* except Exception as e: result["error"] = str(e)
Caught(res, msg) == [res EXCEPT !.error = Some(msg)]

\* lines 134-141: the four assignments, then the map
Deliver(mode, final_route, final_distance, stats, locs, render_map, io_ok) ==
    LET filled == [Envelope(mode) EXCEPT !.route = Some(final_route),
                                         !.distance = Some(final_distance),
                                         !.exec_time = Some("elapsed"),
                                         !.stats = stats]
        rendered == IF render_map THEN RenderRoute(final_route, locs, io_ok) ELSE ""
    IN  IF rendered # "" THEN Caught(filled, "map rendering failed") ELSE filled

\* lines 85-116: the nn and nn_2opt branch
RunNearestNeighbour(locs, start, mode, render_map, io_ok) ==
    IF "reset_stats" \notin NNMethods
    THEN Caught(Envelope(mode), AttributeError("reset_stats"))
    ELSE IF "nearest_neighbour" \notin NNMethods
    THEN Caught(Envelope(mode), AttributeError("nearest_neighbour"))
    ELSE LET nn == SingleStartRoute(locs, start)
         IN  IF nn.raised # "" THEN Caught(Envelope(mode), SolverError(nn.raised))
             ELSE LET final == IF mode = "nn" THEN nn ELSE TwoOpt(locs, nn.route)
                  IN  IF "get_stats" \notin NNMethods
                      THEN Caught(Envelope(mode), AttributeError("get_stats"))
                      ELSE Deliver(mode, final.route, final.distance, {},
                                   locs, render_map, io_ok)

\* lines 119-129: the bf branch
RunBruteForce(locs, start, mode, render_map, io_ok) ==
    LET bf == SolveRun(locs, start)
    IN  IF bf.raised # "" THEN Caught(Envelope(mode), SolverError(bf.raised))
        ELSE Deliver(mode, bf.route, bf.distance,
                     {<<"distance_calls", bf.distance_calls>>,
                      <<"permutations_tested", bf.permutations_tested>>},
                     locs, render_map, io_ok)

RunDispatch_ElseBruteForce(locs, start, mode, render_map, io_ok) ==
    IF mode \in {"nn", "nn_2opt"} THEN RunNearestNeighbour(locs, start, mode, render_map, io_ok)
    ELSE RunBruteForce(locs, start, mode, render_map, io_ok)

RunDispatch(locs, start, mode, render_map, io_ok) ==
    IF mode \in {"nn", "nn_2opt"} THEN RunNearestNeighbour(locs, start, mode, render_map, io_ok)
    ELSE IF mode = "bf" THEN RunBruteForce(locs, start, mode, render_map, io_ok)
    ELSE Caught(Envelope(mode), "Unknown algorithm mode: other")

RunAlgorithm_FirstKeyStart(locs, mode, render_map, io_ok) ==
    RunDispatch(locs, IF HasKey(locs, "Depot") \/ locs = <<>> THEN "Depot" ELSE locs[1].key,
                mode, render_map, io_ok)

RECURSIVE ScanCalls(_)
\* the _distance calls of single_start_route with u customers to visit: one
\* for unvisited[0] and one per unvisited node at each step, one to close
ScanCalls(u) == IF u = 0 THEN 1 ELSE (1 + u) + ScanCalls(u - 1)

\* the _distance calls of two_opt(r): len(r) - 1 for the route it is given
\* and for every candidate
TwoOptCalls(locs, r) == (Len(r) - 1) * (1 + TwoOptTally(locs, r).considered)

\* the _distance calls made in the nn and nn_2opt branch
NearestNeighbourEvaluations(locs, start, mode) ==
    IF "reset_stats" \notin NNMethods \/ "nearest_neighbour" \notin NNMethods THEN 0
    ELSE LET nn == SingleStartRoute(locs, start)
             calls == ScanCalls(Len(UnvisitedInit(locs, start)))
         IN  IF mode = "nn" THEN calls ELSE calls + TwoOptCalls(locs, nn.route)

DispatchEvaluations_ElseBruteForce(locs, start, mode) ==
    IF mode \in {"nn", "nn_2opt"} THEN NearestNeighbourEvaluations(locs, start, mode)
    ELSE SolveRun(locs, start).distance_calls

\* the _distance calls made by the branch the mode selects; the else branch
\* raises without constructing a solver
DispatchEvaluations(locs, start, mode) ==
    IF mode \in {"nn", "nn_2opt"} THEN NearestNeighbourEvaluations(locs, start, mode)
    ELSE IF mode = "bf" THEN SolveRun(locs, start).distance_calls
    ELSE 0

\* the _distance calls made during _run_algorithm_on_current_locations(mode):
\* none when the Depot check raises
RunEvaluations(locs, mode) ==
    IF ~HasKey(locs, "Depot") THEN 0 ELSE DispatchEvaluations(locs, "Depot", mode)

\* _run_algorithm_on_current_locations(mode, render_map)
RunAlgorithm(locs, mode, render_map, io_ok) ==
    IF ~HasKey(locs, "Depot")
    THEN Caught(Envelope(mode), "Locations must contain a 'Depot' node.")
    ELSE RunDispatch(locs, "Depot", mode, render_map, io_ok)

\* the mode strings a caller passes: the three the GUI offers and one unknown
\* mode, "other"
Modes == {"nn", "nn_2opt", "bf", "other"}

InitApp ==
    /\ locations = DefaultLocations
    /\ out = NoCall /\ prev = NoCall
    /\ solver = NewSolver /\ solves = 0
    /\ result = NoRun /\ results = None /\ evaluations = 0
    /\ NoDialog
    /\ Idle

\* update_locations(new_locations), called on the controller as constructed
UpdateLocations ==
    /\ locations = DefaultLocations
    /\ result = NoRun /\ results = None
    /\ locations' \in LocationSets
    /\ UNCHANGED <<solverVars, appVars, twoOptVars, dialogVars>>

\* run(mode): render_map is True; the map's I/O succeeds or fails
Run ==
    /\ result = NoRun
    /\ \E mode \in Modes :
          /\ evaluations' = RunEvaluations(locations, mode)
          /\ \E io_ok \in BOOLEAN :
                result' = RunAlgorithm(locations, mode, TRUE, io_ok)
    /\ UNCHANGED <<locations, solverVars, results, twoOptVars, dialogVars>>

\* modes = ("nn", "nn_2opt", "bf")
RunAllModes == {"nn", "nn_2opt", "bf"}

RunAllResults_SharedResult(locs) ==
    [mode \in RunAllModes |-> RunAlgorithm(locs, "bf", FALSE, TRUE)]

\* the dict run_all builds: one call per mode, each on new solver objects
RunAllResults(locs) ==
    [mode \in RunAllModes |-> RunAlgorithm(locs, mode, FALSE, TRUE)]

\* run_all(): the three modes in turn, render_map False
RunAll ==
    /\ results = None
    /\ results' = Some(RunAllResults(locations))
    /\ UNCHANGED <<locations, solverVars, result, evaluations, twoOptVars, dialogVars>>

NextApp == UpdateLocations \/ Run \/ RunAll

SpecApp == InitApp /\ [][NextApp]_vars

-----------------------------------------------------------------------------
(* The Manage Locations dialog (gui/window.py).  The dialog is given the    *)
(* dict get_locations() returns, which is the controller's own dict: the   *)
(* variable locations is that one object, seen by both.                    *)

\* what the user may have typed into the name field, and text.strip() of it
NameTexts == {"", "  ", "Depot", " Depot ", "Customer1", "Customer5"}

Strip(text) ==
    IF text = "  " THEN "" ELSE IF text = " Depot " THEN "Depot" ELSE text

\* what the user may have typed into the latitude and longitude fields
NumberTexts == {"", "abc", "3", " 4 "}

\* float(text.strip()): the number, or None for the ValueError
ParseFloat(text) ==
    IF text = "3" THEN Some(3) ELSE IF text = " 4 " THEN Some(4) ELSE None

\* locations[key] = value: replaces the value of an existing key in place,
\* else appends the item
DictSet(locs, key, value) ==
    IF HasKey(locs, key)
    THEN [j \in 1..Len(locs) |-> IF locs[j].key = key THEN Item(key, value) ELSE locs[j]]
    ELSE Append(locs, Item(key, value))

\* del locations[key]
DictDel(locs, key) == SelectSeq(locs, LAMBDA e : e.key # key)

DeleteSelection_AnyItem(locs, selected) ==
    IF selected = None THEN locs ELSE DictDel(locs, Get(selected))

\* delete_selected with the list's current item selected (None: no item): the
\* dict afterwards
DeleteSelection(locs, selected) ==
    IF selected = None THEN locs
    ELSE IF Get(selected) = "Depot" THEN locs
    ELSE DictDel(locs, Get(selected))

\* accept with the three fields as typed: whether the dialog closes, and the
\* dict afterwards
AcceptForm(locs, name_text, lat_text, lon_text) ==
    LET name == Strip(name_text)
        lat == ParseFloat(lat_text)
        lon == ParseFloat(lon_text)
    IN  IF name = "" THEN [closes |-> TRUE, locations |-> locs]
        ELSE IF HasKey(locs, name) THEN [closes |-> FALSE, locations |-> locs]
        ELSE IF lat = None \/ lon = None THEN [closes |-> FALSE, locations |-> locs]
        ELSE [closes |-> TRUE,
              locations |-> DictSet(locs, name, Location(name, Get(lat), Get(lon)))]

\* manage_locations up to dlg.exec_(): the dialog is built on get_locations()
OpenDialog ==
    /\ dlg # "open"
    /\ dlg' = "open"
    /\ before' = locations
    /\ UNCHANGED <<locations, adds>>
    /\ UNCHANGED <<solverVars, appVars, twoOptVars>>

\* the Delete button
DeleteSelected ==
    /\ dlg = "open"
    /\ \E selected \in {None} \cup {Some(Keys(locations)[j]) : j \in 1..Len(locations)} :
          locations' = DeleteSelection(locations, selected)
    /\ UNCHANGED <<dlg, before, adds>>
    /\ UNCHANGED <<solverVars, appVars, twoOptVars>>

\* the OK button: accept, and when the dialog closes update_locations(locations)
\* with the dict the dialog worked on
Accept ==
    /\ dlg = "open"
    /\ \E name_text \in NameTexts, lat_text \in NumberTexts, lon_text \in NumberTexts :
          LET form == AcceptForm(locations, name_text, lat_text, lon_text)
          IN  /\ form.locations # locations => adds < MaxAdds
              /\ locations' = form.locations
              /\ dlg' = IF form.closes THEN "accepted" ELSE "open"
              /\ adds' = IF form.locations # locations THEN adds + 1 ELSE adds
    /\ UNCHANGED before
    /\ UNCHANGED <<solverVars, appVars, twoOptVars>>

\* the Cancel button: reject; manage_locations does nothing further
Reject ==
    /\ dlg = "open"
    /\ dlg' = "rejected"
    /\ UNCHANGED <<locations, before, adds>>
    /\ UNCHANGED <<solverVars, appVars, twoOptVars>>

NextDialog == OpenDialog \/ DeleteSelected \/ Accept \/ Reject

SpecDialog == InitApp /\ [][NextDialog]_vars

-----------------------------------------------------------------------------
(* The solvers and the controller on one location set: every operation     *)
(* that is handed the set or holds it, called by a caller that does not    *)
(* itself change the set in between.                                       *)

SolverCall == result = NoRun /\ results = None /\ Next

ControllerCall == out = NoCall /\ result = NoRun /\ results = None /\ (Run \/ RunAll)

NextFrame == SolverCall \/ ControllerCall

SpecFrame == Init /\ [][NextFrame]_vars

-----------------------------------------------------------------------------
(* Properties of the solvers *)

Count(s, x) == Cardinality({j \in 1..Len(s) : s[j] = x})

First(s) == s[1]
Last(s) == s[Len(s)]

CalledOK(op) == out.op = op /\ out.raised = ""

\* C1: on a non-empty location set that contains start, single_start_route
\* returns a route that begins and ends with start, holds every other
\* identifier exactly once and has (number of locations) + 1 elements.
NNRouteIsClosedTour ==
    (out.op = "single_start_route" /\ HasKey(locations, Start)) =>
        /\ out.raised = ""
        /\ Len(out.route) = Len(locations) + 1
        /\ First(out.route) = Start /\ Last(out.route) = Start
        /\ \A j \in 1..Len(locations) :
              locations[j].key # Start => Count(out.route, locations[j].key) = 1
        /\ Count(out.route, Start) = 2

NNRouteIsClosedTourWitness ==
    /\ CalledOK("single_start_route")
    /\ Len(locations) = 4
    /\ Len(out.route) = 5

\* C2: solve returns a closed tour, with its total distance, that is no longer
\* than any closed tour [start] + p + [start], p a permutation of the others.
BFIsMinimal ==
    CalledOK("solve") =>
        /\ out.route \in ClosedRoutes(locations, Start)
        /\ out.distance = TotalRouteDistance(locations, out.route)
        /\ \A r \in ClosedRoutes(locations, Start) :
              out.distance <= TotalRouteDistance(locations, r)

BFIsMinimalWitness ==
    /\ CalledOK("solve")
    /\ \E r \in ClosedRoutes(locations, Start) :
          out.distance < TotalRouteDistance(locations, r)

\* C3: on the same location set and start, the brute-force total distance is
\* at most the nearest-neighbour total distance.
BFNotLongerThanNN ==
    CalledOK("solve") =>
        /\ SingleStartRoute(locations, Start).raised = ""
        /\ out.distance <= SingleStartRoute(locations, Start).distance

BFNotLongerThanNNWitness ==
    /\ CalledOK("solve")
    /\ out.distance < SingleStartRoute(locations, Start).distance

\* C4 as stated: the nearest-neighbour total distance is at most the total
\* distance of every closed tour over the same location set and start.
NNNotLongerThanAnyTour ==
    CalledOK("single_start_route") =>
        \A r \in ClosedRoutes(locations, Start) :
            out.distance <= TotalRouteDistance(locations, r)

\* C4 amended: with at most two customers the nearest-neighbour total distance
\* is at most that of every closed tour; with more, only each leg is minimal:
\* the leg that leaves a node for a customer is no longer than the distance
\* from that node to any customer the tour visits later.
NNLegsAreNearest ==
    CalledOK("single_start_route") =>
        /\ Len(locations) <= 3 =>
              \A r \in ClosedRoutes(locations, Start) :
                  out.distance <= TotalRouteDistance(locations, r)
        /\ \A j \in 1..(Len(out.route) - 2) : \A l \in (j + 1)..(Len(out.route) - 1) :
              Distance(locations, out.route[j], out.route[j + 1])
                  <= Distance(locations, out.route[j], out.route[l])

NNLegsAreNearestWitness ==
    /\ CalledOK("single_start_route")
    /\ Len(locations) = 4
    /\ \E r \in ClosedRoutes(locations, Start) :
          out.distance > TotalRouteDistance(locations, r)

\* C5: two_opt applied to the nearest-neighbour route returns a total distance
\* that is at most the nearest-neighbour total distance.
TwoOptNotLongerThanNN ==
    (out.op = "two_opt" /\ prev.op = "single_start_route") =>
        /\ out.raised = ""
        /\ out.distance <= prev.distance

TwoOptNotLongerThanNNWitness ==
    /\ out.op = "two_opt" /\ prev.op = "single_start_route"
    /\ out.distance < prev.distance

\* C6: two_opt applied to the route two_opt returned gives back that route and
\* that distance.
TwoOptIdempotent ==
    (out.op = "two_opt" /\ prev.op = "two_opt") =>
        /\ out.raised = ""
        /\ out.route = prev.route
        /\ out.distance = prev.distance

TwoOptIdempotentWitness ==
    /\ out.op = "two_opt" /\ prev.op = "two_opt"
    /\ prev.route # prev.arg
    /\ out.route = prev.route

IsClosedTour(r) ==
    /\ Len(r) = Len(locations) + 1
    /\ First(r) = Start /\ Last(r) = Start
    /\ \A j \in 1..Len(locations) :
          Count(r, locations[j].key) = (IF locations[j].key = Start THEN 2 ELSE 1)

\* C7: at every step of two_opt started on a closed route, best_route and the
\* candidate _two_opt_swap produced (the method's, and the standalone function's
\* for the pair about to be examined) start and end with start, are as long as
\* the input route and hold every customer exactly once.
TwoOptKeepsClosedTour ==
    tpc # "idle" =>
        /\ IsClosedTour(route)
        /\ IsClosedTour(best_route) /\ Len(best_route) = Len(route)
        /\ new_route # <<>> => (IsClosedTour(new_route) /\ Len(new_route) = Len(route))
        /\ tpc = "scan" => IsClosedTour(StandaloneTwoOptSwap(best_route, i, k))

TwoOptKeepsClosedTourWitness ==
    /\ tpc = "while" /\ improved
    /\ new_route = best_route
    /\ best_route # route
    /\ k = Len(route) - 2

\* the stepwise two_opt ends with what the call as a whole returns
TwoOptStepsAgree ==
    tpc = "done" =>
        /\ best_route = TwoOpt(locations, route).route
        /\ best_distance = TwoOpt(locations, route).distance

-----------------------------------------------------------------------------
(* Properties of the controller *)

\* C8: when the location set has no 'Depot' entry, run returns for every mode
\* a result with an error and no route.
NoDepotGivesErrorAndNoRoute ==
    ~HasKey(locations, "Depot") =>
        /\ result.mode # "" => (result.error # None /\ result.route = None)
        /\ results # None =>
              \A mode \in {"nn", "nn_2opt", "bf"} :
                  Get(results)[mode].error # None /\ Get(results)[mode].route = None

NoDepotGivesErrorAndNoRouteWitness ==
    /\ ~HasKey(locations, "Depot") /\ Len(locations) >= 2
    /\ result.mode = "bf" /\ result.error # None
    /\ results # None

\* C9: every result run returns carries a route and no error, or an error and
\* no route; never both, never neither.
RunGivesRouteOrErrorNotBoth ==
    result.mode # "" => ((result.route # None) # (result.error # None))

\* C10: on the single-customer set {Depot, A} the three modes return the route
\* [Depot, A, Depot] with the same total distance and no error.
SingleCustomerModesAgree ==
    (results # None /\ Len(locations) = 2 /\ HasKey(locations, "Depot")) =>
        \A mode \in {"nn", "nn_2opt", "bf"} :
            /\ Get(results)[mode].error = None
            /\ Get(results)[mode].route = Some(<<"Depot", locations[2].key, "Depot">>)
            /\ Get(results)[mode].distance = Get(results)["bf"].distance

\* what str(e) is when the map could not be drawn after a solve
RenderFailed(res) == res.error = Some("map rendering failed")

\* a validation step or the solver itself fails on (locs, mode)
SolveFails(locs, mode) ==
    \/ ~HasKey(locs, "Depot")
    \/ mode \notin {"nn", "nn_2opt", "bf"}
    \/ mode \in {"nn", "nn_2opt"} /\ {"reset_stats", "nearest_neighbour", "get_stats"} \ NNMethods # {}
    \/ mode = "bf" /\ Solve(locs, "Depot").raised # ""

\* C11: for every mode string and location set run returns an envelope, and a
\* failed validation or solver step shows in its error field with route and
\* distance unset; an error other than the map's leaves them unset too.
RunSurfacesFailures ==
    result.mode # "" =>
        /\ result.mode \in Modes
        /\ SolveFails(locations, result.mode) =>
              (result.error # None /\ result.route = None /\ result.distance = None)
        /\ (result.error # None /\ ~RenderFailed(result)) =>
              (result.route = None /\ result.distance = None)

RunSurfacesFailuresWitness ==
    /\ HasKey(locations, "Depot")
    /\ result.mode = "other"
    /\ result.error # None /\ result.route = None

\* the customers of the location set: every entry but the start
Customers == SelectSeq(Keys(locations), LAMBDA name : name # Start)

\* C12: on a location set holding the depot alone, solve returns, without an
\* error, the loop from the depot back to itself with total distance 0.
DepotAloneSolves ==
    (out.op = "solve" /\ Keys(locations) = <<Start>>) =>
        /\ out.raised = ""
        /\ out.route = <<Start, Start>>
        /\ out.distance = 0

DepotAloneSolvesWitness ==
    /\ out.op = "solve" /\ Keys(locations) = <<Start>>
    /\ out.route = <<Start, Start>>

\* C13: single_start_route raises, and so returns no route, whenever the
\* start is not a key of the location set, the empty set included.
NNWithoutStartRaises ==
    (out.op = "single_start_route" /\ ~HasKey(locations, Start)) =>
        (out.raised = "KeyError" /\ out.route = <<>>)

NNWithoutStartRaisesWitness ==
    /\ out.op = "single_start_route" /\ locations = <<>>
    /\ out.raised = "KeyError"

\* two envelopes that differ at most in exec_time
SameApartFromTiming(a, b) ==
    /\ a.mode = b.mode /\ a.route = b.route /\ a.distance = b.distance
    /\ a.error = b.error /\ a.stats = b.stats

CallsLeaveLocations ==
    [][(out' # out \/ solves' # solves \/ result' # result \/ results' # results)
          => locations' = locations]_vars

CallsLeaveLocationsWitness ==
    /\ Len(locations) = 4
    /\ out.op = "two_opt" /\ prev.op = "single_start_route"
    /\ out.route # prev.route

RECURSIVE Factorial(_)
Factorial(n) == IF n = 0 THEN 1 ELSE n * Factorial(n - 1)

\* C16: after a solve over m customers that returned, the permutations-tested
\* counter get_stats reports is m!.
PermutationsTestedIsFactorial ==
    (out.op = "solve" /\ out.raised = "") =>
        GetStats(solver).permutations_tested = Factorial(Len(Customers))

\* C17: after any number of solve calls on one instance, its distance-call
\* counter is the number of edges the most recent solve measured, m! * (m + 1)
\* for m customers (none when that solve raised), not a running total.
DistanceCallsOfLastSolve ==
    solves >= 1 =>
        solver.distance_calls =
            IF HasKey(locations, Start)
            THEN Factorial(Len(Customers)) * (Len(Customers) + 1)
            ELSE 0

DistanceCallsOfLastSolveWitness ==
    /\ solves >= 2 /\ out.op = "solve" /\ out.raised = ""
    /\ Len(Customers) = 3
    /\ solver.distance_calls = 24

\* C18: the stats of an nn_2opt run on a set with a depot hold a candidate-swap
\* counter equal to the candidates two_opt examined and an improvement counter
\* equal to the moves it accepted.
TwoOptStatsCountSwaps ==
    (result.mode = "nn_2opt" /\ HasKey(locations, "Depot")) =>
        LET tally == TwoOptTally(locations, SingleStartRoute(locations, "Depot").route)
        IN  /\ <<"two_opt_swaps_considered", tally.considered>> \in result.stats
            /\ <<"two_opt_improvements", tally.improvements>> \in result.stats

\* C19 as stated: a route over n customers has n + 1 elements, and those at
\* (zero-based) index 0 and index n are the start.
RouteHasCustomersPlusOne ==
    (CalledOK("single_start_route") \/ CalledOK("solve")) =>
        /\ Len(out.route) = Len(Customers) + 1
        /\ out.route[1] = Start
        /\ out.route[Len(Customers) + 1] = Start

\* C19, amended: a route of single_start_route or solve over n customers has
\* n + 2 elements, and those at (zero-based) index 0 and index n + 1 are the
\* start.
RouteHasCustomersPlusTwo ==
    (CalledOK("single_start_route") \/ CalledOK("solve")) =>
        /\ Len(out.route) = Len(Customers) + 2
        /\ out.route[1] = Start
        /\ out.route[Len(Customers) + 2] = Start

RouteHasCustomersPlusTwoWitness ==
    /\ CalledOK("solve") /\ Len(Customers) = 3
    /\ Len(out.route) = 5 /\ out.route[4] # Start

\* C20: the total distance single_start_route returns is the sum of the
\* distances between successive elements of the route it returns, the edge
\* back to the start included.
NNDistanceIsSumOfLegs ==
    CalledOK("single_start_route") =>
        out.distance = TotalRouteDistance(locations, out.route)

NNDistanceIsSumOfLegsWitness ==
    /\ CalledOK("single_start_route")
    /\ Len(locations) = 4 /\ Len(out.route) = 5
    /\ out.distance > 0
    /\ out.distance = TotalRouteDistance(locations, out.route)

\* the location set with its two customers entered in the other order
CustomersSwapped(locs) == <<locs[1], locs[3], locs[2]>>

CandidateIsShorter ==
    TotalRouteDistance(locations, TwoOptSwap(best_route, i, k)) < best_distance

\* the scan is entered again after a candidate was accepted
ScanAfterAcceptance ==
    tpc = "while" /\ improved /\ new_route # <<>> /\ tpc' = "scan"

\* C22 as stated: after an acceptance the scan goes on from the current i.
ScanResumesAtCurrentI == [][ScanAfterAcceptance => i' = i]_vars

\* C22, amended: a strictly shorter candidate is accepted at once and ends the
\* pass; the next pass starts again from i = 1, k = 2; candidates that are not
\* accepted are followed by the next pair in increasing (i, k) order, with
\* 1 <= i < k <= len(route) - 2.
FirstImprovementRestartsFromOne ==
    [][/\ tpc = "scan" => (1 <= i /\ i < k /\ k <= Len(best_route) - 2)
       /\ (tpc = "scan" /\ CandidateIsShorter) =>
             /\ best_route' = TwoOptSwap(best_route, i, k)
             /\ best_distance' < best_distance
             /\ improved' /\ tpc' = "while"
       /\ ScanAfterAcceptance => (i' = 1 /\ k' = 2)
       /\ (tpc = "scan" /\ ~CandidateIsShorter) =>
             /\ best_route' = best_route
             /\ \/ tpc' = "scan" /\ i' = i /\ k' = k + 1
                \/ tpc' = "scan" /\ k = Len(best_route) - 2 /\ i' = i + 1 /\ k' = i + 2
                \/ tpc' = "while" /\ ~improved'
                   /\ i = Len(best_route) - 3 /\ k = Len(best_route) - 2
      ]_vars

FirstImprovementRestartsFromOneWitness ==
    /\ tpc = "while" /\ improved
    /\ i = 2 /\ new_route = best_route /\ best_route # route

\* where a name stands in the location set's iteration order
KeyIndex(name) == CHOOSE j \in 1..Len(locations) : locations[j].key = name

\* the nodes still unvisited when single_start_route stands at out.route[j]
\* are out.route[j + 1 .. Len - 1]; l names one visited later that is exactly
\* as near to out.route[j] as the node chosen
TiedLater(j, l) ==
    /\ j \in 1..(Len(out.route) - 2) /\ l \in (j + 2)..(Len(out.route) - 1)
    /\ Distance(locations, out.route[j], out.route[l])
          = Distance(locations, out.route[j], out.route[j + 1])

\* C23: at each step of single_start_route the node chosen is the earliest,
\* in the location set's iteration order, of the unvisited nodes at minimum
\* distance from the current node.
NNTiesGoToFirstSeen ==
    CalledOK("single_start_route") =>
        \A j \in 1..(Len(out.route) - 2) : \A l \in (j + 1)..(Len(out.route) - 1) :
            /\ Distance(locations, out.route[j], out.route[j + 1])
                  <= Distance(locations, out.route[j], out.route[l])
            /\ TiedLater(j, l) => KeyIndex(out.route[j + 1]) < KeyIndex(out.route[l])

NNTiesGoToFirstSeenWitness ==
    /\ CalledOK("single_start_route")
    /\ \E j \in 1..Len(out.route), l \in 1..Len(out.route) : TiedLater(j, l)

\* the permutations of the customers in the order solve enumerates them
CustomerOrders == permutations(Customers)

\* the total of the closed route through the customers in the order perm
OrderTotal(perm) == TotalRouteDistance(locations, <<Start>> \o perm \o <<Start>>)

\* the first enumerated of the permutations with the least total
FirstMinimalOrder ==
    LET orders == CustomerOrders
        totals == [j \in 1..Len(orders) |-> OrderTotal(orders[j])]
    IN  CHOOSE j \in 1..Len(totals) :
            /\ \A h \in 1..Len(totals) : totals[j] <= totals[h]
            /\ \A h \in 1..(j - 1) : totals[h] > totals[j]

\* C24: of the permutations with the least total distance solve returns the
\* one enumerated first, permutations being enumerated in the order derived
\* from the location set's iteration order.
BFTiesGoToFirstSeen ==
    CalledOK("solve") =>
        out.route = <<Start>> \o CustomerOrders[FirstMinimalOrder] \o <<Start>>

BFTiesGoToFirstSeenWitness ==
    /\ CalledOK("solve") /\ Len(Customers) = 3
    /\ LET first == FirstMinimalOrder
       IN  \E h \in (first + 1)..Len(CustomerOrders) :
              /\ OrderTotal(CustomerOrders[h]) = out.distance
              /\ <<Start>> \o CustomerOrders[h] \o <<Start>> # out.route

\* the run ended with a configuration error: no Depot, or an unknown mode
ConfigurationError(res) ==
    res.error \in {Some("Locations must contain a 'Depot' node."),
                   Some("Unknown algorithm mode: other")}

\* C25: a run that ends with a configuration error (missing start node,
\* unknown mode) has made no solver distance evaluation.
ConfigurationErrorBeforeSolving ==
    (result.mode # "" /\ ConfigurationError(result)) => evaluations = 0

ConfigurationErrorBeforeSolvingWitness ==
    /\ result.mode = "other" /\ ConfigurationError(result)
    /\ HasKey(locations, "Depot") /\ Len(locations) = 4
    /\ evaluations = 0

\* C26: what is deleted or added in the Manage Locations dialog reaches the
\* controller's location set only when the dialog is closed with OK: while
\* the dialog is open, and after Cancel, the set is as it was when the dialog
\* opened.
DialogEditsNeedOK ==
    dlg \in {"open", "rejected"} => locations = before

\* C30: from the default set, after any sequence of dialog operations the
\* location set holds the key 'Depot' exactly once and every key maps to a
\* Location whose name is the key.
DepotKeptAndNamesMatchKeys ==
    /\ Count(Keys(locations), "Depot") = 1
    /\ \A j \in 1..Len(locations) : locations[j].value.name = locations[j].key

DepotKeptAndNamesMatchKeysWitness ==
    /\ dlg = "rejected" /\ adds = 2
    /\ HasKey(locations, "Customer5") /\ ~HasKey(locations, "Customer2")
    /\ Lookup(locations, "Customer1") = Location("Customer1", 3, 4)
    /\ DepotKeptAndNamesMatchKeys

\* C27: two_opt started on a closed route returns: every accepted candidate
\* makes best_distance strictly smaller, best_distance never grows, and the
\* call reaches a pass without acceptance and its return.
TwoOptTerminates ==
    /\ [][tpc = "scan" =>
             /\ best_distance' <= best_distance
             /\ best_route' # best_route => best_distance' < best_distance]_vars
    /\ (tpc # "idle") ~> (tpc = "done")

TwoOptTerminatesWitness ==
    /\ tpc = "done" /\ ~improved
    /\ Len(route) = 5 /\ best_route # route
    /\ best_distance < TotalRouteDistance(locations, route)

\* r with its elements at the zero-based indices ci..ck in reverse order
ReverseSegment(r, ci, ck) ==
    [j \in 1..Len(r) |->
        IF j < ci + 1 \/ j > ck + 1 THEN r[j] ELSE r[(ci + 1) + (ck + 1) - j]]

\* C28: the route two_opt returns cannot be shortened by reversing any segment
\* route[i..k] with 1 <= i < k <= len - 2, and the distance returned is the sum
\* of the distances between its successive elements.
TwoOptReturnsLocalOptimum ==
    CalledOK("two_opt") =>
        /\ out.distance = TotalRouteDistance(locations, out.route)
        /\ \A ci \in 1..(Len(out.route) - 3) : \A ck \in (ci + 1)..(Len(out.route) - 2) :
              TotalRouteDistance(locations, ReverseSegment(out.route, ci, ck)) >= out.distance

TwoOptReturnsLocalOptimumWitness ==
    /\ CalledOK("two_opt") /\ Len(out.route) = 5
    /\ out.route # out.arg
    /\ \E ci \in 1..2 : \E ck \in (ci + 1)..3 :
          TotalRouteDistance(locations, ReverseSegment(out.route, ci, ck)) > out.distance

\* C29: the standalone two_opt, given the solver's distance as callback, and
\* the method two_opt examine the same candidates in the same order, accept
\* the same ones, and return the same route and distance.
StandaloneTwoOptAgrees ==
    tpc = "done" =>
        LET alone == StandaloneTwoOpt(route, DistanceFn(locations))
        IN  /\ alone.examined = examined
            /\ alone.route = best_route
            /\ alone.distance = best_distance

StandaloneTwoOptAgreesWitness ==
    /\ tpc = "done" /\ Len(route) = 5
    /\ Len(examined) > 3
    /\ \E j \in 1..Len(examined) : examined[j][3]
    /\ StandaloneTwoOpt(route, DistanceFn(locations)).route = best_route

====
